---- MODULE Spec2Model ----
(***************************************************************************)
(* VirtuDoc AI backend: the provider-fallback logic of the endpoint        *)
(* handlers (src/src/routes/ai.py), the adapters' readiness guards         *)
(* (src/src/services/ai_services.py) and the rule-based vitals / triage    *)
(* classifiers that the handlers run inline.                               *)
(*                                                                         *)
(* One request is followed through its handler.  A handler is split at     *)
(* each read of the process-wide adapter state, so that a /config request  *)
(* served by another thread can run between two reads.  /config itself is  *)
(* one step: every intermediate state of its field writes equals the       *)
(* result of some /config call with a smaller body.                        *)
(*                                                                         *)
(* Credentials and clients are numbers: 0 is a falsy value (None or ""),   *)
(* 1..MaxCred are distinct credentials (a client is named by the           *)
(* credential it was built with).  Temperatures are in tenths of a degree. *)
(* Durations are in tenths of a second.                                    *)
(***************************************************************************)
EXTENDS Integers, Sequences, FiniteSets, TLC

VARIABLES
    USE_REAL_SERVICES,    \* routes/ai.py:19
    bedrock_client,       \* claude_service.bedrock_client
    rekognition_client,   \* rekognition_service.rekognition_client
    elevenlabs_api_key,   \* elevenlabs_service.api_key
    tavus_api_key,        \* tavus_service.api_key
    pc,                   \* position of the request in its handler
    ep,                   \* endpoint of the request
    body,                 \* parsed JSON body of the request (a dict)
    loc,                  \* the handler's local variables
    spy,                  \* per request: calls made to each adapter and their results
    resp,                 \* the response sent
    config_resp           \* the response of the last /config request

adapters == <<bedrock_client, rekognition_client, elevenlabs_api_key, tavus_api_key>>
vars == <<USE_REAL_SERVICES, bedrock_client, rekognition_client, elevenlabs_api_key,
          tavus_api_key, pc, ep, body, loc, spy, resp, config_resp>>

\* Number of distinct non-empty credentials.
MaxCred == 1
\* Longest text sent to /generate-tts and /create-video-summary.
MaxLen == 1

Creds == 1..MaxCred
Adapters == {"claude", "elevenlabs", "tavus", "rekognition"}

ClaudeEndpoints == {"chat", "analyze_vitals", "summarize_case", "emergency_triage"}
Endpoints == ClaudeEndpoints \cup {"generate_tts", "create_video_summary", "analyze_image"}

\* The provider whose name an endpoint may report in service_used.
Provider(e) ==
    CASE e = "generate_tts" -> "elevenlabs"
      [] e = "create_video_summary" -> "tavus"
      [] e = "analyze_image" -> "rekognition"
      [] OTHER -> "claude"

\* dict.get(key, default)
Get(d, key, default) == IF key \in DOMAIN d THEN d[key] ELSE default

\* All dicts whose keys are a subset of the keys of vals, key k taking a value of vals[k].
Dicts(vals) ==
    UNION {{d \in [ks -> UNION {vals[k] : k \in ks}] : \A k \in ks : d[k] \in vals[k]} :
           ks \in SUBSET DOMAIN vals}

(***************************************************************************)
(* Strings are sequences of one-character strings.                         *)
(***************************************************************************)
UpperAlpha == <<"A", "B", "C", "D", "E", "F", "G", "H", "I", "J", "K", "L", "M", "N", "O", "P", "Q", "R", "S", "T", "U", "V", "W", "X", "Y", "Z">>
LowerAlpha == <<"a", "b", "c", "d", "e", "f", "g", "h", "i", "j", "k", "l", "m", "n", "o", "p", "q", "r", "s", "t", "u", "v", "w", "x", "y", "z">>

IndexIn(alpha, c) == CHOOSE i \in 1..Len(alpha) : alpha[i] = c
InAlpha(alpha, c) == \E i \in 1..Len(alpha) : alpha[i] = c

\* str.lower(), character by character
lower_char(c) == IF InAlpha(UpperAlpha, c) THEN LowerAlpha[IndexIn(UpperAlpha, c)] ELSE c
lower(s) == [i \in 1..Len(s) |-> lower_char(s[i])]

\* str.upper() and str.capitalize(), used to build the sample texts only
upper_char(c) == IF InAlpha(LowerAlpha, c) THEN UpperAlpha[IndexIn(LowerAlpha, c)] ELSE c
upper(s) == [i \in 1..Len(s) |-> upper_char(s[i])]
capitalize(s) == [i \in 1..Len(s) |-> IF i = 1 THEN upper_char(s[i]) ELSE s[i]]

\* Python's `k in s` for strings: k occurs in s as a contiguous substring.
Contains(k, s) == \E i \in 0..(Len(s) - Len(k)) : SubSeq(s, i + 1, i + Len(k)) = k

\* `for keyword in keywords: if keyword in s: ...; break`, from index i on:
\* whether the loop body's assignment runs.
RECURSIVE AnyKeywordFrom(_, _, _)
AnyKeywordFrom(keywords, s, i) ==
    IF i > Len(keywords) THEN FALSE
    ELSE IF Contains(keywords[i], s) THEN TRUE
    ELSE AnyKeywordFrom(keywords, s, i + 1)
AnyKeyword(keywords, s) == AnyKeywordFrom(keywords, s, 1)

\* routes/ai.py:514
emergency_keywords == <<
    <<"c", "h", "e", "s", "t", " ", "p", "a", "i", "n">>,
    <<"d", "i", "f", "f", "i", "c", "u", "l", "t", "y", " ", "b", "r", "e", "a", "t", "h", "i", "n", "g">>,
    <<"u", "n", "c", "o", "n", "s", "c", "i", "o", "u", "s">>,
    <<"s", "e", "v", "e", "r", "e", " ", "b", "l", "e", "e", "d", "i", "n", "g">>,
    <<"s", "t", "r", "o", "k", "e">>>>
\* routes/ai.py:515
urgent_keywords == <<
    <<"s", "e", "v", "e", "r", "e", " ", "p", "a", "i", "n">>,
    <<"h", "i", "g", "h", " ", "f", "e", "v", "e", "r">>,
    <<"v", "o", "m", "i", "t", "i", "n", "g", " ", "b", "l", "o", "o", "d">>,
    <<"s", "e", "v", "e", "r", "e", " ", "h", "e", "a", "d", "a", "c", "h", "e">>>>

(***************************************************************************)
(* The rule-based classifiers the handlers run inline.                     *)
(***************************************************************************)
\* analyze_vitals: `if bp_systolic > 140 or bp_diastolic > 90`
\* (the variant with >=, which the boundary values tell apart)
bp_elevated_inclusive(vitals) ==
    Get(vitals, "bp_systolic", 120) >= 140 \/ Get(vitals, "bp_diastolic", 80) >= 90
bp_elevated(vitals) ==
    Get(vitals, "bp_systolic", 120) > 140 \/ Get(vitals, "bp_diastolic", 80) > 90

\* analyze_vitals: `if oxygen_saturation < 95 or heart_rate > 100 or temperature > 101`
\* (the variant with <= and >=)
severe_vitals_inclusive(vitals) ==
    \/ Get(vitals, "oxygen_saturation", 98) <= 95
    \/ Get(vitals, "heart_rate", 70) >= 100
    \/ Get(vitals, "temperature", 986) >= 1010
\* (the variant that takes an implausible heart rate for the default)
severe_vitals_plausible_only(vitals) ==
    \/ Get(vitals, "oxygen_saturation", 98) < 95
    \/ (Get(vitals, "heart_rate", 70) > 100 /\ Get(vitals, "heart_rate", 70) <= 250)
    \/ Get(vitals, "temperature", 986) > 1010
severe_vitals(vitals) ==
    \/ Get(vitals, "oxygen_saturation", 98) < 95
    \/ Get(vitals, "heart_rate", 70) > 100
    \/ Get(vitals, "temperature", 986) > 1010

\* analyze_vitals, "Simple risk assessment logic": two `if`s in a row, the later
\* assignment overwriting the earlier one.
\* (the variant with the two `if`s in the other order)
classify_vitals_bp_last(vitals) ==
    LET r0 == [risk_level |-> "low", urgency |-> "routine"]
        r1 == IF severe_vitals(vitals)
              THEN [risk_level |-> "high", urgency |-> "urgent"]
              ELSE r0
        r2 == IF bp_elevated(vitals)
              THEN [risk_level |-> "medium", urgency |-> "elevated"]
              ELSE r1
    IN  r2
classify_vitals(vitals) ==
    LET r0 == [risk_level |-> "low", urgency |-> "routine"]
        r1 == IF bp_elevated(vitals)
              THEN [risk_level |-> "medium", urgency |-> "elevated"]
              ELSE r0
        r2 == IF severe_vitals(vitals)
              THEN [risk_level |-> "high", urgency |-> "urgent"]
              ELSE r1
    IN  r2

\* emergency_triage: `symptoms_lower = symptoms.lower()`
\* (the variant without it: a case-sensitive search)
symptoms_not_lowered(symptoms) == symptoms
symptoms_lower(symptoms) == lower(symptoms)

\* emergency_triage: the two keyword loops, on the default NON-URGENT / False.
\* (the variant without the second loop)
keyword_triage_emergency_only(symptoms) ==
    IF AnyKeyword(emergency_keywords, symptoms_lower(symptoms))
    THEN [triage_level |-> "IMMEDIATE", call_emergency |-> TRUE]
    ELSE [triage_level |-> "NON-URGENT", call_emergency |-> FALSE]
keyword_triage(symptoms) ==
    LET t0 == [triage_level |-> "NON-URGENT", call_emergency |-> FALSE]
        t1 == IF AnyKeyword(emergency_keywords, symptoms_lower(symptoms))
              THEN [triage_level |-> "IMMEDIATE", call_emergency |-> TRUE]
              ELSE t0
        t2 == IF t1.triage_level # "IMMEDIATE"
                 /\ AnyKeyword(urgent_keywords, symptoms_lower(symptoms))
              THEN [t1 EXCEPT !.triage_level = "URGENT"]
              ELSE t1
    IN  t2

\* emergency_triage, "Check vitals for emergency conditions": the condition
\* (the variant without the blood-pressure clause)
vitals_emergency_no_bp(vitals) ==
    /\ DOMAIN vitals # {}
    /\ \/ Get(vitals, "oxygen_saturation", 100) < 90
       \/ Get(vitals, "heart_rate", 70) > 120
\* (the variant with <= and >=)
vitals_emergency_inclusive(vitals) ==
    /\ DOMAIN vitals # {}
    /\ \/ Get(vitals, "oxygen_saturation", 100) <= 90
       \/ Get(vitals, "heart_rate", 70) >= 120
       \/ Get(vitals, "bp_systolic", 120) >= 180
vitals_emergency(vitals) ==
    /\ DOMAIN vitals # {}
    /\ \/ Get(vitals, "oxygen_saturation", 100) < 90
       \/ Get(vitals, "heart_rate", 70) > 120
       \/ Get(vitals, "bp_systolic", 120) > 180

\* ... and its two assignments
\* (the variant that leaves call_emergency as it was)
vitals_override_level_only(t) == [t EXCEPT !.triage_level = "IMMEDIATE"]
vitals_override(t) == [triage_level |-> "IMMEDIATE", call_emergency |-> TRUE]

\* emergency_triage, "Rule-based triage logic as fallback"
classify_triage(symptoms, vitals) ==
    IF vitals_emergency(vitals)
    THEN vitals_override(keyword_triage(symptoms))
    ELSE keyword_triage(symptoms)

(***************************************************************************)
(* Requests                                                                *)
(***************************************************************************)
EmptyDict == [k \in {} |-> 0]

\* A text of n characters.
TextOfLen(n) == [i \in 1..n |-> "x"]
Texts == {TextOfLen(n) : n \in 0..MaxLen}

\* image_data: empty, a well-formed base64 string, a string base64.b64decode rejects.
ImageData == {"", "aGk=", "a"}
b64decode_raises(image_data) == image_data = "a"

\* text_origin: where response_text / script / triage_analysis came from;
\* media_origin: which branch built the audio / video / findings fields.
\* text: the narrative itself, one of the provider's texts or a canned one.
ProviderTexts == {"all normal", "seek care now"}
NoLoc == [text_origin |-> "na", text |-> "na", media_origin |-> "na"]

\* What an observer of the adapters records for the request: seen[a] is the state of
\* adapter a when the handler checked it, calls[a] the number of calls of its method,
\* result[a] what the last call gave.
NoSpy ==
    [seen |-> [a \in Adapters |-> "none"], calls |-> [a \in Adapters |-> 0],
     result |-> [a \in Adapters |-> "none"]]
NoResp == [status |-> 0]

\* The handlers' `except Exception as e: return jsonify({'success': False, ...}), 500`
ErrorResponse == [status |-> 500, success |-> FALSE]

(***************************************************************************)
(* Readiness checks of the handlers and guards of the adapters             *)
(***************************************************************************)
\* `USE_REAL_SERVICES and claude_service.bedrock_client`
\* (the variant that does not read the flag)
ClaudeReady_ignores_flag == bedrock_client # 0
ClaudeReady == USE_REAL_SERVICES /\ bedrock_client # 0

\* `USE_REAL_SERVICES and elevenlabs_service.api_key`,
\* `USE_REAL_SERVICES and tavus_service.api_key`,
\* `USE_REAL_SERVICES and rekognition_service.rekognition_client and image_data`
\* (the variant in which the video handler looks at the ElevenLabs key)
MediaReady_wrong_key(e, b) ==
    CASE e = "generate_tts" -> USE_REAL_SERVICES /\ elevenlabs_api_key # 0
      [] e = "create_video_summary" -> USE_REAL_SERVICES /\ elevenlabs_api_key # 0
      [] e = "analyze_image" ->
             USE_REAL_SERVICES /\ rekognition_client # 0 /\ Get(b, "image_data", "") # ""
MediaReady(e, b) ==
    CASE e = "generate_tts" -> USE_REAL_SERVICES /\ elevenlabs_api_key # 0
      [] e = "create_video_summary" -> USE_REAL_SERVICES /\ tavus_api_key # 0
      [] e = "analyze_image" ->
             USE_REAL_SERVICES /\ rekognition_client # 0 /\ Get(b, "image_data", "") # ""

\* `if not self.bedrock_client: raise ...`, `if not self.api_key: raise ...`, at the
\* head of each adapter method; past it every failure becomes success=False.
AdapterConfigured(a) ==
    CASE a = "claude" -> bedrock_client # 0
      [] a = "elevenlabs" -> elevenlabs_api_key # 0
      [] a = "tavus" -> tavus_api_key # 0
      [] a = "rekognition" -> rekognition_client # 0

\* What an adapter call gives the handler: outcome is what the provider does.
CallResult(a, outcome) == IF AdapterConfigured(a) THEN outcome ELSE "raised"

Spied(a, result) == [spy EXCEPT !.calls[a] = @ + 1, !.result[a] = result]

Seen(sp, a) ==
    [sp EXCEPT !.seen[a] = IF USE_REAL_SERVICES /\ AdapterConfigured(a) THEN "ready" ELSE "unready"]

\* `if ..._response['success']: <real content> else: <mock content>`
\* (the variant that never looks at 'success')
no_fallback_origin(result) == "real"
fallback_origin(result) == IF result = "ok" THEN "real" ELSE "mock"

(***************************************************************************)
(* Handlers: first step (parse the body, first readiness check)            *)
(***************************************************************************)
StartRequest(e, b) ==
    /\ pc \in {"idle", "done"}
    /\ ep' = e
    /\ body' = b
    /\ resp' = NoResp
    /\ UNCHANGED <<USE_REAL_SERVICES, config_resp, adapters>>

\* if ready: go on to the Claude call; else: mock text, then `next`
EnterClaude(next) ==
    /\ spy' = Seen(NoSpy, "claude")
    /\ IF ClaudeReady
       THEN loc' = NoLoc /\ pc' = "claude_call"
       ELSE loc' = [NoLoc EXCEPT !.text_origin = "mock", !.text = "canned"] /\ pc' = next

EnterMedia(l, sp, e, b) ==
    /\ spy' = Seen(sp, Provider(e))
    /\ IF MediaReady(e, b)
       THEN loc' = l /\ pc' = "media_call"
       ELSE loc' = [l EXCEPT !.media_origin = "mock"] /\ pc' = "respond"

patient_chat(b) == StartRequest("chat", b) /\ EnterClaude("respond")

analyze_vitals(b) == StartRequest("analyze_vitals", b) /\ EnterClaude("respond")

summarize_case(b) == StartRequest("summarize_case", b) /\ EnterClaude("respond")

emergency_triage(b) == StartRequest("emergency_triage", b) /\ EnterClaude("respond")

create_video_summary(b) == StartRequest("create_video_summary", b) /\ EnterClaude("tavus_check")

generate_tts(b) == StartRequest("generate_tts", b) /\ EnterMedia(NoLoc, NoSpy, "generate_tts", b)

analyze_image(b) ==
    /\ pc \in {"idle", "done"}
    /\ ep' = "analyze_image"
    /\ body' = b
    /\ UNCHANGED <<USE_REAL_SERVICES, config_resp, adapters>>
    /\ IF MediaReady("analyze_image", b) /\ b64decode_raises(Get(b, "image_data", ""))
       THEN /\ pc' = "done"
            /\ resp' = ErrorResponse
            /\ loc' = NoLoc
            /\ spy' = Seen(NoSpy, "rekognition")
       ELSE resp' = NoResp /\ EnterMedia(NoLoc, NoSpy, "analyze_image", b)

(***************************************************************************)
(* Handlers: later steps                                                   *)
(***************************************************************************)
\* claude_service.generate_response(prompt) and the handler's `if claude_response['success']`
\* (the variant that calls again after success=False)
generate_response_retries ==
    /\ pc = "claude_call"
    /\ \E outcome \in {"ok", "fail"}, response \in ProviderTexts :
         LET result == CallResult("claude", outcome) IN
         /\ spy.calls["claude"] < 3
         /\ spy' = Spied("claude", result)
         /\ IF result = "raised"
            THEN pc' = "done" /\ resp' = ErrorResponse /\ loc' = loc
            ELSE /\ loc' = [loc EXCEPT !.text_origin = fallback_origin(result),
                                        !.text = IF result = "ok" THEN response ELSE "canned"]
                 /\ pc' = IF result = "fail" THEN "claude_call"
                           ELSE IF ep = "create_video_summary" THEN "tavus_check" ELSE "respond"
                 /\ resp' = resp
    /\ UNCHANGED <<USE_REAL_SERVICES, config_resp, adapters, ep, body>>
generate_response ==
    /\ pc = "claude_call"
    /\ \E outcome \in {"ok", "fail"}, response \in ProviderTexts :
         LET result == CallResult("claude", outcome)
             origin == fallback_origin(result)
         IN
         /\ spy' = Spied("claude", result)
         /\ IF result = "raised"
            THEN pc' = "done" /\ resp' = ErrorResponse /\ loc' = loc
            ELSE /\ loc' = [loc EXCEPT !.text_origin = origin,
                                        !.text = IF origin = "real" THEN response ELSE "canned"]
                 /\ pc' = IF ep = "create_video_summary" THEN "tavus_check" ELSE "respond"
                 /\ resp' = resp
    /\ UNCHANGED <<USE_REAL_SERVICES, config_resp, adapters, ep, body>>

\* create_video_summary, "Then, create video using Tavus"
tavus_check ==
    /\ pc = "tavus_check"
    /\ EnterMedia(loc, spy, ep, body)
    /\ UNCHANGED <<USE_REAL_SERVICES, config_resp, adapters, ep, body, resp>>

\* generate_speech / create_video / analyze_image and the handler's `if ...['success']`
media_call ==
    /\ pc = "media_call"
    /\ \E outcome \in {"ok", "fail"} :
         LET result == CallResult(Provider(ep), outcome) IN
         /\ spy' = Spied(Provider(ep), result)
         /\ IF result = "raised"
            THEN pc' = "done" /\ resp' = ErrorResponse /\ loc' = loc
            ELSE /\ loc' = [loc EXCEPT !.media_origin = fallback_origin(result)]
                 /\ pc' = "respond"
                 /\ resp' = resp
    /\ UNCHANGED <<USE_REAL_SERVICES, config_resp, adapters, ep, body>>

\* The response dict of each handler.  text_origin and media_origin say where the
\* response's text (response / analysis / summary / script) and media fields
\* (audio_url / video_url / findings) came from.
ServiceUsedClaude(otherwise) == IF ClaudeReady THEN "claude" ELSE otherwise

\* (the variant that evaluates the readiness check again, as the Claude endpoints do)
ServiceUsedMedia_recomputed(e, l) == IF MediaReady(e, body) THEN Provider(e) ELSE "mock"
ServiceUsedMedia(e, l) == IF l.media_origin = "real" THEN Provider(e) ELSE "mock"

Response(e, b, l) ==
    CASE e \in {"chat", "summarize_case"} ->
             [status |-> 200, success |-> TRUE, text_origin |-> l.text_origin, text |-> l.text,
              service_used |-> ServiceUsedClaude("mock")]
      [] e = "analyze_vitals" ->
             LET r == classify_vitals(Get(b, "vitals", EmptyDict)) IN
             [status |-> 200, success |-> TRUE, text_origin |-> l.text_origin, text |-> l.text,
              risk_level |-> r.risk_level, urgency |-> r.urgency,
              service_used |-> ServiceUsedClaude("mock")]
      [] e = "emergency_triage" ->
             LET t == classify_triage(Get(b, "symptoms", <<>>), Get(b, "vitals", EmptyDict)) IN
             [status |-> 200, success |-> TRUE, text_origin |-> l.text_origin, text |-> l.text,
              triage_level |-> t.triage_level, call_emergency |-> t.call_emergency,
              service_used |-> ServiceUsedClaude("rule-based")]
      [] e = "generate_tts" ->
             [status |-> 200, success |-> TRUE, media_origin |-> l.media_origin,
              duration |-> Len(Get(b, "text", <<>>)), text_length |-> Len(Get(b, "text", <<>>)),
              service_used |-> ServiceUsedMedia(e, l)]
      [] e = "create_video_summary" ->
             [status |-> 200, success |-> TRUE, text_origin |-> l.text_origin, text |-> l.text,
              media_origin |-> l.media_origin, duration |-> 600,
              service_used |-> ServiceUsedMedia(e, l)]
      [] e = "analyze_image" ->
             [status |-> 200, success |-> TRUE, media_origin |-> l.media_origin,
              service_used |-> ServiceUsedMedia(e, l)]

\* `return jsonify({...})`
\* (the variant that rates the vitals by the provider's narrative)
respond_rates_narrative ==
    /\ pc = "respond"
    /\ resp' = LET r == Response(ep, body, loc) IN
               IF ep = "analyze_vitals" /\ loc.text = "seek care now"
               THEN [r EXCEPT !.risk_level = "high", !.urgency = "urgent"]
               ELSE r
    /\ pc' = "done"
    /\ UNCHANGED <<USE_REAL_SERVICES, config_resp, adapters, ep, body, loc, spy>>
respond ==
    /\ pc = "respond"
    /\ resp' = Response(ep, body, loc)
    /\ pc' = "done"
    /\ UNCHANGED <<USE_REAL_SERVICES, config_resp, adapters, ep, body, loc, spy>>

(***************************************************************************)
(* /health                                                                 *)
(***************************************************************************)
\* `'available' if USE_REAL_SERVICES and <client or key> else 'mock'`
\* (the variant that does not read the flag)
service_status_ignores_flag(a) == IF AdapterConfigured(a) THEN "available" ELSE "mock"
service_status(a) == IF USE_REAL_SERVICES /\ AdapterConfigured(a) THEN "available" ELSE "mock"

\* health_check calls no adapter and has no failure path.  Each entry reads one
\* adapter field once, so the handler is one step.
\* (the variant that forgets the ElevenLabs key)
health_check_forgets_key ==
    /\ pc \in {"idle", "done"}
    /\ ep' = "health"
    /\ body' = EmptyDict
    /\ loc' = NoLoc
    /\ spy' = NoSpy
    /\ resp' = [status |-> 200, use_real_services |-> USE_REAL_SERVICES,
                services |-> [a \in Adapters |-> service_status(a)]]
    /\ pc' = "done"
    /\ elevenlabs_api_key' = 0
    /\ UNCHANGED <<USE_REAL_SERVICES, config_resp, bedrock_client, rekognition_client,
                   tavus_api_key>>
health_check ==
    /\ pc \in {"idle", "done"}
    /\ ep' = "health"
    /\ body' = EmptyDict
    /\ loc' = NoLoc
    /\ spy' = NoSpy
    /\ resp' = [status |-> 200, use_real_services |-> USE_REAL_SERVICES,
                services |-> [a \in Adapters |-> service_status(a)]]
    /\ pc' = "done"
    /\ UNCHANGED <<USE_REAL_SERVICES, config_resp, adapters>>

(***************************************************************************)
(* /config                                                                 *)
(***************************************************************************)
\* ClaudeService.initialize_client / AWSRekognitionService.initialize_client:
\* the new client, or the old one when boto3.client raises.
initialize_client(old, aws_access_key_id, ok) == IF ok THEN aws_access_key_id ELSE old

\* ElevenLabsService.set_api_key / TavusService.set_api_key
set_api_key(old, api_key) == api_key

\* Bodies of /config: any subset of the four keys.  A key may be empty (0).
ConfigBodies ==
    Dicts([elevenlabs_api_key |-> 0..MaxCred, tavus_api_key |-> 0..MaxCred,
           aws_access_key_id |-> Creds, aws_secret_access_key |-> {1}])

\* Whether boto3.client raises matters only when update_config calls it.
InitOutcomes(b) ==
    IF "aws_access_key_id" \in DOMAIN b /\ "aws_secret_access_key" \in DOMAIN b
    THEN BOOLEAN \X BOOLEAN
    ELSE {<<TRUE, TRUE>>}

\* (the variant that does not ask for aws_secret_access_key)
update_config_key_id_only(b, okClaude, okRekognition) ==
    /\ elevenlabs_api_key' =
         IF "elevenlabs_api_key" \in DOMAIN b
         THEN set_api_key(elevenlabs_api_key, b["elevenlabs_api_key"])
         ELSE elevenlabs_api_key
    /\ tavus_api_key' =
         IF "tavus_api_key" \in DOMAIN b
         THEN set_api_key(tavus_api_key, b["tavus_api_key"])
         ELSE tavus_api_key
    /\ IF "aws_access_key_id" \in DOMAIN b
       THEN /\ bedrock_client' = initialize_client(bedrock_client, b["aws_access_key_id"], okClaude)
            /\ rekognition_client' =
                 initialize_client(rekognition_client, b["aws_access_key_id"], okRekognition)
       ELSE UNCHANGED <<bedrock_client, rekognition_client>>
    /\ config_resp' = [status |-> 200, success |-> TRUE]
    /\ UNCHANGED <<USE_REAL_SERVICES, pc, ep, body, loc, spy, resp>>
update_config(b, okClaude, okRekognition) ==
    /\ elevenlabs_api_key' =
         IF "elevenlabs_api_key" \in DOMAIN b
         THEN set_api_key(elevenlabs_api_key, b["elevenlabs_api_key"])
         ELSE elevenlabs_api_key
    /\ tavus_api_key' =
         IF "tavus_api_key" \in DOMAIN b
         THEN set_api_key(tavus_api_key, b["tavus_api_key"])
         ELSE tavus_api_key
    /\ IF "aws_access_key_id" \in DOMAIN b /\ "aws_secret_access_key" \in DOMAIN b
       THEN /\ bedrock_client' = initialize_client(bedrock_client, b["aws_access_key_id"], okClaude)
            /\ rekognition_client' =
                 initialize_client(rekognition_client, b["aws_access_key_id"], okRekognition)
       ELSE UNCHANGED <<bedrock_client, rekognition_client>>
    /\ config_resp' = [status |-> 200, success |-> TRUE]
    /\ UNCHANGED <<USE_REAL_SERVICES, pc, ep, body, loc, spy, resp>>

(***************************************************************************)
(* Start of the process: routes/ai.py:12-35                                *)
(***************************************************************************)
\* The environment: the flag, and each credential present (a value of Creds) or not (0).
Init ==
    /\ USE_REAL_SERVICES \in BOOLEAN
    /\ \E aws \in 0..MaxCred, okClaude \in BOOLEAN, okRekognition \in BOOLEAN :
         /\ bedrock_client =
              IF USE_REAL_SERVICES /\ aws # 0 THEN initialize_client(0, aws, okClaude) ELSE 0
         /\ rekognition_client =
              IF USE_REAL_SERVICES /\ aws # 0 THEN initialize_client(0, aws, okRekognition) ELSE 0
    /\ \E key \in 0..MaxCred :
         elevenlabs_api_key = IF USE_REAL_SERVICES /\ key # 0 THEN set_api_key(0, key) ELSE 0
    /\ \E key \in 0..MaxCred :
         tavus_api_key = IF USE_REAL_SERVICES /\ key # 0 THEN set_api_key(0, key) ELSE 0
    /\ pc = "idle"
    /\ ep = "none"
    /\ body = EmptyDict
    /\ loc = NoLoc
    /\ spy = NoSpy
    /\ resp = NoResp
    /\ config_resp = NoResp

\* Request bodies of the fallback model: one or two per endpoint, and every kind of
\* image_data.  The classifiers' inputs are explored under RuleSpec.
VitalsBodies == {EmptyDict, [vitals |-> [bp_systolic |-> 150]]}
TriageBodies == {EmptyDict, [symptoms |-> <<>>, vitals |-> [oxygen_saturation |-> 85]]}
TtsBodies == {[text |-> t] : t \in Texts}
VideoBodies == {[diagnosis |-> t] : t \in Texts}
ImageBodies == {[image_data |-> d] : d \in ImageData}

Next ==
    \/ \E b \in {EmptyDict} : patient_chat(b)
    \/ \E b \in VitalsBodies : analyze_vitals(b)
    \/ \E b \in {EmptyDict} : summarize_case(b)
    \/ \E b \in TtsBodies : generate_tts(b)
    \/ \E b \in VideoBodies : create_video_summary(b)
    \/ \E b \in ImageBodies : analyze_image(b)
    \/ \E b \in TriageBodies : emergency_triage(b)
    \/ generate_response
    \/ tavus_check
    \/ media_call
    \/ respond
    \/ health_check
    \/ \E b \in ConfigBodies : \E ok \in InitOutcomes(b) : update_config(b, ok[1], ok[2])

Spec == Init /\ [][Next]_vars

\* The same process when no /config request is served while a request is in its
\* handler: requests and configuration changes one after the other.
SeqNext ==
    \/ \E b \in {EmptyDict} : patient_chat(b)
    \/ \E b \in VitalsBodies : analyze_vitals(b)
    \/ \E b \in {EmptyDict} : summarize_case(b)
    \/ \E b \in TtsBodies : generate_tts(b)
    \/ \E b \in VideoBodies : create_video_summary(b)
    \/ \E b \in ImageBodies : analyze_image(b)
    \/ \E b \in TriageBodies : emergency_triage(b)
    \/ generate_response
    \/ tavus_check
    \/ media_call
    \/ respond
    \/ health_check
    \/ pc \in {"idle", "done"}
          /\ \E b \in ConfigBodies : \E ok \in InitOutcomes(b) : update_config(b, ok[1], ok[2])

SeqSpec == Init /\ [][SeqNext]_vars

\* The process serving /config and /health only.
ConfigNext ==
    \/ health_check
    \/ \E b \in ConfigBodies : \E ok \in InitOutcomes(b) : update_config(b, ok[1], ok[2])

ConfigSpec == Init /\ [][ConfigNext]_vars

(***************************************************************************)
(* The classifiers' inputs: sample vitals around every threshold, and      *)
(* sample symptom texts around every keyword.                              *)
(***************************************************************************)
VitalsValues ==
    [bp_systolic |-> {120, 140, 141}, bp_diastolic |-> {90, 91},
     heart_rate |-> {100, 101, 300}, oxygen_saturation |-> {94, 95},
     temperature |-> {1010, 1011}]
\* the all-default sample, and the sample of test_ai_backend.py
DefaultSample ==
    [bp_systolic |-> 120, bp_diastolic |-> 80, heart_rate |-> 70, oxygen_saturation |-> 98,
     temperature |-> 986]
TestSample ==
    [bp_systolic |-> 140, bp_diastolic |-> 90, heart_rate |-> 85, oxygen_saturation |-> 97,
     temperature |-> 992]
RuleVitalsBodies ==
    {EmptyDict, [vitals |-> DefaultSample], [vitals |-> TestSample]}
    \cup {[vitals |-> v] : v \in Dicts(VitalsValues)}

TriageVitalsValues ==
    [oxygen_saturation |-> {89, 90}, heart_rate |-> {120, 121}, bp_systolic |-> {180, 181},
     temperature |-> {986}]

SeqToSet(q) == {q[i] : i \in 1..Len(q)}
Keywords == SeqToSet(emergency_keywords) \cup SeqToSet(urgent_keywords)
CaseVariants(k) == {k, upper(k), capitalize(k)}
PadsBefore == {<<>>, <<"s", "u", "n">>}
PadsAfter == {<<>>, <<"s">>}
Joiner == <<" ", "a", "n", "d", " ">>
NearMisses == {
    <<>>,
    <<"h", "e", "a", "d", "a", "c", "h", "e">>,
    <<"c", "h", "e", "s", "t", "p", "a", "i", "n">>,
    <<"c", "h", "e", "s", "t", " ", " ", "p", "a", "i", "n">>,
    <<"s", "t", "r", "o", "k">>,
    <<"s", "e", "v", "e", "r", " ", "p", "a", "i", "n">>,
    <<"h", "i", "g", "h", " ", " ", "f", "e", "v", "e", "r">>,
    <<"u", "n", "c", "o", "n", "s", "c", "i", "o", " ", "u", "s">>,
    <<"m", "i", "l", "d", " ", "c", "o", "u", "g", "h">>}
SymptomTexts ==
    {pre \o v \o post : pre \in PadsBefore, post \in PadsAfter,
                        v \in UNION {CaseVariants(k) : k \in Keywords}}
    \cup {u \o Joiner \o e : u \in SeqToSet(urgent_keywords), e \in SeqToSet(emergency_keywords)}
    \cup {e \o Joiner \o u : u \in SeqToSet(urgent_keywords), e \in SeqToSet(emergency_keywords)}
    \cup {<<"s", "u", "n">> \o upper(e) \o <<"s">> \o Joiner \o u :
              u \in SeqToSet(urgent_keywords), e \in SeqToSet(emergency_keywords)}
    \cup NearMisses
RuleTriageBodies ==
    {EmptyDict}
    \cup {[symptoms |-> s] : s \in SymptomTexts}
    \cup {[vitals |-> v] : v \in Dicts(TriageVitalsValues)}
    \cup {[symptoms |-> s, vitals |-> v] : s \in SymptomTexts, v \in Dicts(TriageVitalsValues)}

\* The process as started with at most the AWS credentials, serving its first
\* request, to /analyze-vitals or /emergency-triage (a handler keeps nothing from
\* one request to the next).
RuleInit == Init /\ elevenlabs_api_key = 0 /\ tavus_api_key = 0 /\ rekognition_client = 0

RuleNext ==
    \/ pc = "idle" /\ \E b \in RuleVitalsBodies : analyze_vitals(b)
    \/ pc = "idle" /\ \E b \in RuleTriageBodies : emergency_triage(b)
    \/ generate_response
    \/ respond

RuleSpec == RuleInit /\ [][RuleNext]_vars

(***************************************************************************)
(* Properties                                                              *)
(***************************************************************************)
Done == pc = "done"
Answered == pc = "done" /\ resp.status = 200

\* The handler's local result for the capability adapter a serves.
OriginOf(a) == IF a = "claude" THEN loc.text_origin ELSE loc.media_origin

\* The same in the response sent.
RespOriginOf(a) == IF a = "claude" THEN resp.text_origin ELSE resp.media_origin

\* The adapters an endpoint's handler may call.
AdaptersOf(e) == IF e = "create_video_summary" THEN {"claude", "tavus"} ELSE {Provider(e)}

\* C1: whenever the endpoint's provider was called for the request and returned
\* success=false, so that mock content was substituted, the response's service_used
\* is 'mock'.
C1_ServiceUsedMockOnFallback ==
    (Answered /\ spy.result[Provider(ep)] = "fail") => resp.service_used = "mock"

\* C2: when the adapter of an endpoint's capability was ready (flag true, adapter
\* configured) and its call returned success=false, the handler answers HTTP 200
\* with success=true and mock content for that capability; and in any answered
\* request, the content of every adapter whose call failed is mock content.
C2_FailureAbsorbed ==
    /\ (Done /\ spy.seen[Provider(ep)] = "ready" /\ spy.result[Provider(ep)] = "fail")
          => (resp.status = 200 /\ resp.success /\ RespOriginOf(Provider(ep)) = "mock")
    /\ \A a \in Adapters :
          (Answered /\ spy.result[a] = "fail") => (resp.success /\ RespOriginOf(a) = "mock")

C2_Witness ==
    /\ Done
    /\ ep = "generate_tts"
    /\ spy.seen["elevenlabs"] = "ready"
    /\ spy.result["elevenlabs"] = "fail"
    /\ resp.status = 200
    /\ resp.media_origin = "mock"

\* C3: if the flag is false, or an adapter is not configured when the handler checks
\* it, the request never calls that adapter and the capability's result is mock
\* content; for the endpoint's own provider the request is answered with it.
C3_UnreadyNeverCalled ==
    \A a \in Adapters :
        spy.seen[a] = "unready" =>
            /\ spy.calls[a] = 0
            /\ OriginOf(a) = "mock"
            /\ (Done /\ a = Provider(ep)) => (resp.status = 200 /\ RespOriginOf(a) = "mock")

C3_Witness ==
    /\ Done
    /\ ep = "chat"
    /\ ~USE_REAL_SERVICES
    /\ bedrock_client # 0
    /\ spy.seen["claude"] = "unready"
    /\ spy.calls["claude"] = 0
    /\ resp.text_origin = "mock"

\* A body whose fields have the types the handlers expect.
WellFormed(e, b) == e = "analyze_image" => ~b64decode_raises(Get(b, "image_data", ""))

\* C4: every request with a well-formed body completes with success=true and never
\* with an HTTP 500 response, under any interleaving with /config.
C4_NeverFails == (Done /\ ep \in Endpoints /\ WellFormed(ep, body)) => (resp.status = 200 /\ resp.success)

\* The fields of the request.
ReqVitals == Get(body, "vitals", EmptyDict)
ReqSymptoms == Get(body, "symptoms", <<>>)
Has(k) == k \in DOMAIN ReqVitals
\* A field as the specification reads it: its value, or the stated default.
Given(k) == Get(ReqVitals, k, DefaultSample[k])

\* C5: in every successful /emergency-triage response, call_emergency is true if and
\* only if triage_level is IMMEDIATE.
C5_CallEmergencyIffImmediate ==
    (Done /\ ep = "emergency_triage" /\ resp.success)
        => (resp.call_emergency <=> resp.triage_level = "IMMEDIATE")

C5_Witness ==
    /\ Done
    /\ ep = "emergency_triage"
    /\ resp.success
    /\ resp.call_emergency
    /\ Has("heart_rate") /\ ReqVitals["heart_rate"] > 120
    /\ ReqSymptoms \in NearMisses

\* C6: vitals with oxygen_saturation < 95 or heart_rate > 100 or temperature > 101
\* are answered risk_level=high, urgency=urgent, whatever the blood pressure.
HighSeverity ==
    \/ Has("oxygen_saturation") /\ ReqVitals["oxygen_saturation"] < 95
    \/ Has("heart_rate") /\ ReqVitals["heart_rate"] > 100
    \/ Has("temperature") /\ ReqVitals["temperature"] > 1010

C6_SevereIsHigh ==
    (Done /\ ep = "analyze_vitals" /\ HighSeverity)
        => (resp.status = 200 /\ resp.risk_level = "high" /\ resp.urgency = "urgent")

C6_Witness ==
    /\ Done
    /\ ep = "analyze_vitals"
    /\ Has("oxygen_saturation") /\ ReqVitals["oxygen_saturation"] < 95
    /\ Has("bp_systolic") /\ ReqVitals["bp_systolic"] > 140
    /\ resp.risk_level = "high"

\* C7: vitals with bp_systolic > 140 or bp_diastolic > 90, and none of the
\* high-severity conditions, are answered exactly risk_level=medium,
\* urgency=elevated; 140 over 90 itself is not.
BpExceeds == Given("bp_systolic") > 140 \/ Given("bp_diastolic") > 90
NotSevere ==
    Given("oxygen_saturation") >= 95 /\ Given("heart_rate") <= 100 /\ Given("temperature") <= 1010

C7_BpIsMedium ==
    (Done /\ ep = "analyze_vitals" /\ NotSevere)
        => /\ resp.status = 200
           /\ BpExceeds => (resp.risk_level = "medium" /\ resp.urgency = "elevated")
           /\ (Given("bp_systolic") = 140 /\ Given("bp_diastolic") = 90)
                 => resp.risk_level # "medium"

C7_Witness ==
    /\ Done
    /\ ep = "analyze_vitals"
    /\ NotSevere
    /\ Given("bp_systolic") = 140
    /\ Given("bp_diastolic") = 91
    /\ resp.risk_level = "medium"
    /\ resp.urgency = "elevated"

\* C8: vitals that exceed no threshold, the all-default sample and an empty vitals
\* object among them, are answered risk_level=low, urgency=routine.
C8_NormalIsLow ==
    (Done /\ ep = "analyze_vitals" /\ NotSevere /\ ~BpExceeds)
        => (resp.status = 200 /\ resp.risk_level = "low" /\ resp.urgency = "routine")

C8_Witness ==
    /\ Done
    /\ ep = "analyze_vitals"
    /\ ReqVitals = DefaultSample
    /\ resp.risk_level = "low"
    /\ resp.urgency = "routine"

\* C9: non-empty vitals with oxygen_saturation < 90 or heart_rate > 120 or
\* bp_systolic > 180 are answered IMMEDIATE with call_emergency, whatever the symptoms.
VitalsEmergency ==
    \/ Has("oxygen_saturation") /\ ReqVitals["oxygen_saturation"] < 90
    \/ Has("heart_rate") /\ ReqVitals["heart_rate"] > 120
    \/ Has("bp_systolic") /\ ReqVitals["bp_systolic"] > 180

C9_VitalsOverride ==
    (Done /\ ep = "emergency_triage" /\ VitalsEmergency)
        => (resp.status = 200 /\ resp.triage_level = "IMMEDIATE" /\ resp.call_emergency)

C9_Witness ==
    /\ Done
    /\ ep = "emergency_triage"
    /\ ReqSymptoms = <<"m", "i", "l", "d", " ", "c", "o", "u", "g", "h">>
    /\ DOMAIN ReqVitals = {"bp_systolic"}
    /\ ReqVitals["bp_systolic"] > 180
    /\ resp.triage_level = "IMMEDIATE"
    /\ resp.call_emergency

\* k occurs in s as a substring, letters compared without regard to case.
SameIgnoringCase(a, b) ==
    Len(a) = Len(b) /\ \A i \in 1..Len(a) : a[i] \in {b[i], upper_char(b[i])}
OccursIgnoringCase(k, s) ==
    \E i \in 0..(Len(s) - Len(k)) : SameIgnoringCase(SubSeq(s, i + 1, i + Len(k)), k)
HasEmergencyKeyword == \E k \in SeqToSet(emergency_keywords) : OccursIgnoringCase(k, ReqSymptoms)
HasUrgentKeyword == \E k \in SeqToSet(urgent_keywords) : OccursIgnoringCase(k, ReqSymptoms)

\* C10: a symptom text that contains an emergency keyword, in any case and also
\* inside a longer word, is answered IMMEDIATE with call_emergency, even when it
\* contains an urgent keyword too.
C10_EmergencyKeyword ==
    (Done /\ ep = "emergency_triage" /\ HasEmergencyKeyword)
        => (resp.status = 200 /\ resp.triage_level = "IMMEDIATE" /\ resp.call_emergency)

C10_Witness ==
    /\ Done
    /\ ep = "emergency_triage"
    /\ ReqSymptoms = <<"s", "u", "n">> \o upper(emergency_keywords[5]) \o <<"s">>
                        \o Joiner \o urgent_keywords[2]
    /\ HasEmergencyKeyword
    /\ HasUrgentKeyword
    /\ resp.triage_level = "IMMEDIATE"
    /\ resp.call_emergency

\* C11: a symptom text that contains an urgent keyword and no emergency keyword, with
\* vitals absent or not triggering the vitals override, is answered URGENT with
\* call_emergency false.
C11_UrgentKeyword ==
    (Done /\ ep = "emergency_triage" /\ HasUrgentKeyword /\ ~HasEmergencyKeyword
          /\ ~VitalsEmergency)
        => (resp.status = 200 /\ resp.triage_level = "URGENT" /\ ~resp.call_emergency)

C11_Witness ==
    /\ Done
    /\ ep = "emergency_triage"
    /\ ReqSymptoms = <<"s", "u", "n">> \o upper(urgent_keywords[3]) \o <<"s">>
    /\ ~HasEmergencyKeyword
    /\ DOMAIN ReqVitals = {"oxygen_saturation", "heart_rate", "bp_systolic"}
    /\ ReqVitals["oxygen_saturation"] = 90
    /\ ReqVitals["heart_rate"] = 120
    /\ ReqVitals["bp_systolic"] = 180
    /\ resp.triage_level = "URGENT"
    /\ ~resp.call_emergency

\* The narratives a Claude-backed handler can have in hand when it builds its response.
NarrativePaths ==
    {[NoLoc EXCEPT !.text_origin = "real", !.text = t] : t \in ProviderTexts}
    \cup {[NoLoc EXCEPT !.text_origin = "mock", !.text = "canned"]}
RuleFields(r) ==
    IF "risk_level" \in DOMAIN r
    THEN <<r.risk_level, r.urgency>>
    ELSE <<r.triage_level, r.call_emergency>>

\* C12: risk_level and urgency of /analyze-vitals, and triage_level and call_emergency
\* of /emergency-triage, are those the handler gives the same request body with any
\* other narrative: the provider's, whatever its text, or a canned one after a
\* failed call or on the mock path.
C12_RulesIgnoreNarrative ==
    (Done /\ ep \in {"analyze_vitals", "emergency_triage"} /\ resp.status = 200)
        => \A l \in NarrativePaths : RuleFields(Response(ep, body, l)) = RuleFields(resp)

C12_Witness ==
    /\ Done
    /\ ep = "analyze_vitals"
    /\ spy.result["claude"] = "ok"
    /\ resp.text_origin = "real"
    /\ resp.text = "seek care now"
    /\ ReqVitals = DefaultSample
    /\ resp.risk_level = "low"
    /\ resp.urgency = "routine"

\* Complete vitals samples, and the order "B is at least as abnormal as A in every field".
FullSamples == {v \in Dicts(VitalsValues) : DOMAIN v = DOMAIN DefaultSample} \cup {DefaultSample, TestSample}
FieldOf(v, k) == Get(v, k, DefaultSample[k])
AtLeastAsAbnormal(B, A) ==
    /\ \A k \in {"bp_systolic", "bp_diastolic", "heart_rate", "temperature"} :
          FieldOf(B, k) >= FieldOf(A, k)
    /\ FieldOf(B, "oxygen_saturation") <= FieldOf(A, "oxygen_saturation")
RiskRank(risk_level) == CASE risk_level = "low" -> 0 [] risk_level = "medium" -> 1 [] risk_level = "high" -> 2
UrgencyRank(urgency) == CASE urgency = "routine" -> 0 [] urgency = "elevated" -> 1 [] urgency = "urgent" -> 2
NotLower(rb, ra) ==
    /\ RiskRank(rb.risk_level) >= RiskRank(ra.risk_level)
    /\ UrgencyRank(rb.urgency) >= UrgencyRank(ra.urgency)

\* C13: the risk_level and urgency answered for a vitals sample are not lower than
\* those of any sample it is at least as abnormal as, and not higher than those of
\* any sample at least as abnormal as it (low < medium < high, routine < elevated <
\* urgent).
C13_Monotone ==
    (Done /\ ep = "analyze_vitals" /\ resp.status = 200)
        => \A A \in FullSamples :
              LET a == Response(ep, [vitals |-> A], loc) IN
              /\ AtLeastAsAbnormal(ReqVitals, A) => NotLower(resp, a)
              /\ AtLeastAsAbnormal(A, ReqVitals) => NotLower(a, resp)

C13_Witness ==
    /\ Done
    /\ ep = "analyze_vitals"
    /\ DOMAIN ReqVitals = DOMAIN DefaultSample
    /\ ReqVitals["bp_systolic"] = 141
    /\ ReqVitals["oxygen_saturation"] = 94
    /\ resp.risk_level = "high"
    /\ \E A \in FullSamples :
          /\ AtLeastAsAbnormal(ReqVitals, A)
          /\ A # ReqVitals
          /\ A["bp_systolic"] = 120
          /\ classify_vitals(A).risk_level = "high"

\* Where the handler stands when it is about to call adapter a.
CallPc(a) == IF a = "claude" THEN "claude_call" ELSE "media_call"

\* C14: within one request every adapter is called at most once; once a call has
\* returned success=false the capability's content is the mock content, that call was
\* the only one, and the handler is past it, never about to call the adapter again.
C14_NoRetry ==
    \A a \in Adapters :
        /\ spy.calls[a] <= 1
        /\ spy.result[a] = "fail" =>
              (spy.calls[a] = 1 /\ OriginOf(a) = "mock" /\ pc # CallPc(a))

C14_Witness ==
    /\ Done
    /\ ep = "create_video_summary"
    /\ spy.calls["claude"] = 1
    /\ spy.result["claude"] = "fail"
    /\ spy.calls["tavus"] = 1
    /\ spy.result["tavus"] = "fail"
    /\ resp.status = 200
    /\ resp.text_origin = "mock"
    /\ resp.media_origin = "mock"

\* The state of adapter a: its client or key.
StateOf(a) ==
    CASE a = "claude" -> bedrock_client
      [] a = "elevenlabs" -> elevenlabs_api_key
      [] a = "tavus" -> tavus_api_key
      [] a = "rekognition" -> rekognition_client
NoConfiguration == ~USE_REAL_SERVICES /\ \A a \in Adapters : StateOf(a) = 0

\* C15: every /health response reports a service 'available' exactly when the flag
\* is true and the service's adapter is configured at that time, and 'mock'
\* otherwise; with no configuration at all it reports all four services 'mock'.
C15_HealthReport ==
    [][health_check =>
          /\ \A a \in Adapters :
                /\ resp'.services[a] \in {"available", "mock"}
                /\ resp'.services[a] = "available" <=> (USE_REAL_SERVICES /\ StateOf(a) # 0)
          /\ NoConfiguration => resp'.services = [a \in Adapters |-> "mock"]
          /\ resp'.use_real_services = USE_REAL_SERVICES]_vars

C15_Witness ==
    /\ Done
    /\ ep = "health"
    /\ USE_REAL_SERVICES
    /\ bedrock_client # 0
    /\ elevenlabs_api_key = 0
    /\ resp.services["claude"] = "available"
    /\ resp.services["elevenlabs"] = "mock"
    /\ resp.services["tavus"] = service_status("tavus")
    /\ resp.services["rekognition"] = service_status("rekognition")

\* A step of a capability handler or of /health.
HandlerStep ==
    \/ patient_chat(body') \/ analyze_vitals(body') \/ summarize_case(body')
    \/ generate_tts(body') \/ create_video_summary(body') \/ analyze_image(body')
    \/ emergency_triage(body')
    \/ generate_response \/ tavus_check \/ media_call \/ respond
    \/ health_check

\* C16: no step of a capability handler or of /health changes the Claude client, the
\* Rekognition client, the ElevenLabs key or the Tavus key, whether it ends the
\* request with success, with mock content or with an HTTP 500; a step that changes
\* one of them moves no handler.
C16_OnlyConfigWrites ==
    [][/\ HandlerStep => UNCHANGED adapters
       /\ adapters' # adapters => UNCHANGED <<USE_REAL_SERVICES, pc, ep, body, loc, spy, resp>>]_vars

C16_Witness ==
    /\ Done
    /\ ep = "analyze_image"
    /\ resp.status = 500
    /\ spy.seen["rekognition"] = "ready"
    /\ \A a \in Adapters : StateOf(a) # 0

\* The values a human can have, for the sense of "out of range".
PlausibleRange ==
    [bp_systolic |-> <<40, 300>>, bp_diastolic |-> <<20, 200>>, heart_rate |-> <<20, 250>>,
     oxygen_saturation |-> <<0, 100>>, temperature |-> <<800, 1150>>]
InRange(k, v) == PlausibleRange[k][1] <= v /\ v <= PlausibleRange[k][2]
\* A field with a missing or out-of-range value replaced by its default.
Sanitized(k) == IF Has(k) /\ InRange(k, ReqVitals[k]) THEN ReqVitals[k] ELSE DefaultSample[k]
RiskOf(severe, bp) == IF severe THEN "high" ELSE IF bp THEN "medium" ELSE "low"
UrgencyOf(risk_level) ==
    CASE risk_level = "high" -> "urgent" [] risk_level = "medium" -> "elevated"
      [] risk_level = "low" -> "routine"

\* C17 as stated: /analyze-vitals answers success=true with the classification of
\* the vitals in which every missing or out-of-range field is replaced by its default.
C17_OutOfRangeDefaulted ==
    (Done /\ ep = "analyze_vitals")
        => /\ resp.status = 200 /\ resp.success
           /\ resp.risk_level =
                 RiskOf(\/ Sanitized("oxygen_saturation") < 95
                        \/ Sanitized("heart_rate") > 100
                        \/ Sanitized("temperature") > 1010,
                        Sanitized("bp_systolic") > 140 \/ Sanitized("bp_diastolic") > 90)
           /\ resp.urgency = UrgencyOf(resp.risk_level)

\* C17, amended: /analyze-vitals answers success=true with the classification of the
\* vitals in which every missing field is replaced by its default and every given
\* number is used as it is, however far out of range.
C17_MissingDefaulted ==
    (Done /\ ep = "analyze_vitals")
        => /\ resp.status = 200 /\ resp.success
           /\ resp.risk_level = RiskOf(~NotSevere, BpExceeds)
           /\ resp.urgency = UrgencyOf(resp.risk_level)

C17_Witness ==
    /\ Done
    /\ ep = "analyze_vitals"
    /\ DOMAIN ReqVitals = {"heart_rate"}
    /\ ReqVitals["heart_rate"] = 300
    /\ ~InRange("heart_rate", ReqVitals["heart_rate"])
    /\ resp.success
    /\ resp.risk_level = "high"
    /\ resp.urgency = "urgent"

\* The handler found adapter a ready and has called it, or is about to.
CalledOrAboutTo(a) ==
    \/ pc = CallPc(a) /\ spy.calls[a] = 0 /\ OriginOf(a) = "na"
    \/ spy.calls[a] = 1 /\ (OriginOf(a) = "mock" => spy.result[a] = "fail")

\* C18 as stated: whenever the flag is true and an adapter is configured when the
\* handler checks it, the request calls that adapter, whatever the request body, and
\* has mock content for the capability only after the call failed.
C18_ReadyAlwaysCalls ==
    \A a \in Adapters : spy.seen[a] = "ready" => CalledOrAboutTo(a)

\* The image of the request is there to send: non-empty, valid base64.
HasImage ==
    Get(body, "image_data", "") # "" /\ ~b64decode_raises(Get(body, "image_data", ""))

\* C18, amended: the same, for Rekognition only when the request has non-empty
\* image_data that decodes; without it /analyze-image answers mock content, or an
\* HTTP 500 for undecodable data, without calling Rekognition.
C18_ReadyCallsGivenImage ==
    \A a \in Adapters :
        /\ (spy.seen[a] = "ready" /\ (a = "rekognition" => HasImage)) => CalledOrAboutTo(a)
        /\ (a = "rekognition" /\ ep = "analyze_image" /\ Done /\ ~HasImage) =>
              /\ spy.calls[a] = 0
              /\ IF Get(body, "image_data", "") = ""
                 THEN resp.status = 200 /\ resp.media_origin = "mock"
                 ELSE spy.seen[a] = "ready" <=> resp.status = 500

C18_Witness ==
    /\ Done
    /\ ep = "analyze_image"
    /\ HasImage
    /\ spy.seen["rekognition"] = "ready"
    /\ spy.calls["rekognition"] = 1
    /\ spy.result["rekognition"] = "fail"
    /\ resp.status = 200
    /\ resp.media_origin = "mock"

\* The request field that holds the input text of a synthesis endpoint.
InputField(e) == IF e = "generate_tts" THEN "text" ELSE "diagnosis"

\* C19: in every /generate-tts and /create-video-summary response with a mock result,
\* on the direct mock path and after a failed provider call alike, the duration is
\* proportional to the length of the input text: the same request with a strictly
\* shorter text is answered a strictly shorter duration, in the ratio of the lengths.
C19_DurationProportional ==
    (Done /\ ep \in {"generate_tts", "create_video_summary"} /\ resp.status = 200
          /\ resp.media_origin = "mock")
        => \A t \in Texts :
              LET text == body[InputField(ep)]
                  shorter == Response(ep, [body EXCEPT ![InputField(ep)] = t], loc)
              IN  Len(t) < Len(text) =>
                     /\ shorter.duration < resp.duration
                     /\ shorter.duration * Len(text) = resp.duration * Len(t)

\* C20: under every interleaving with /config, a response names the real provider in
\* service_used only if that provider was called for this request and the call
\* succeeded, and carries 'mock' (or 'rule-based') whenever its content is mock
\* content.
C20_ServiceUsedFaithful ==
    (Answered /\ ep \in Endpoints) =>
        /\ resp.service_used = Provider(ep) =>
              (spy.calls[Provider(ep)] = 1 /\ spy.result[Provider(ep)] = "ok")
        /\ RespOriginOf(Provider(ep)) = "mock" => resp.service_used \in {"mock", "rule-based"}

MediaEndpoints == {"generate_tts", "create_video_summary", "analyze_image"}

\* C21: with no /config served during the request, every /generate-tts,
\* /create-video-summary and /analyze-image request with a well-formed body is
\* answered, and its service_used is the provider's name if and only if the provider's
\* adapter was called for the request and returned success=true, and 'mock' in every
\* other case; for /create-video-summary the provider is Tavus, wherever the script
\* came from.
C21_MediaServiceUsed ==
    (Done /\ ep \in MediaEndpoints /\ WellFormed(ep, body)) =>
        /\ resp.status = 200
        /\ resp.service_used \in {Provider(ep), "mock"}
        /\ resp.service_used = Provider(ep) <=>
              (spy.calls[Provider(ep)] = 1 /\ spy.result[Provider(ep)] = "ok")

C21_Witness ==
    /\ Done
    /\ ep = "create_video_summary"
    /\ spy.result["claude"] = "fail"
    /\ resp.text_origin = "mock"
    /\ spy.calls["tavus"] = 1
    /\ spy.result["tavus"] = "ok"
    /\ resp.service_used = "tavus"

\* C22: a symptom text that contains no emergency keyword and no urgent keyword, with
\* vitals absent, empty or not triggering the vitals override, is answered the default
\* NON-URGENT with call_emergency false.
C22_DefaultNonUrgent ==
    (Done /\ ep = "emergency_triage" /\ ~HasEmergencyKeyword /\ ~HasUrgentKeyword
          /\ ~VitalsEmergency)
        => (resp.status = 200 /\ resp.triage_level = "NON-URGENT" /\ ~resp.call_emergency)

C22_Witness ==
    /\ Done
    /\ ep = "emergency_triage"
    /\ ReqSymptoms = <<"c", "h", "e", "s", "t", " ", " ", "p", "a", "i", "n">>
    /\ DOMAIN ReqVitals = {"oxygen_saturation", "heart_rate", "bp_systolic", "temperature"}
    /\ ReqVitals["oxygen_saturation"] = 90
    /\ ReqVitals["heart_rate"] = 120
    /\ ReqVitals["bp_systolic"] = 180
    /\ resp.triage_level = "NON-URGENT"
    /\ ~resp.call_emergency

\* The body of a /config request carries both AWS keys.
HasAwsPair(b) == "aws_access_key_id" \in DOMAIN b /\ "aws_secret_access_key" \in DOMAIN b

\* C23: every /config request returns success=true and changes exactly the adapters
\* its body addresses: elevenlabs_api_key sets the ElevenLabs key and tavus_api_key
\* the Tavus key, each left as it was when its field is absent; the AWS pair gives
\* the Claude and the Rekognition client the new credentials (a client whose
\* initialization fails stays as it was); a body with at most one of the two AWS
\* keys leaves both clients as they were.
C23_ConfigFrame ==
    [][\A b \in ConfigBodies :
          (\E ok \in InitOutcomes(b) : update_config(b, ok[1], ok[2])) =>
              /\ config_resp'.status = 200 /\ config_resp'.success
              /\ elevenlabs_api_key' =
                    IF "elevenlabs_api_key" \in DOMAIN b THEN b["elevenlabs_api_key"]
                    ELSE elevenlabs_api_key
              /\ tavus_api_key' =
                    IF "tavus_api_key" \in DOMAIN b THEN b["tavus_api_key"] ELSE tavus_api_key
              /\ IF HasAwsPair(b)
                 THEN /\ bedrock_client' \in {b["aws_access_key_id"], bedrock_client}
                      /\ rekognition_client' \in {b["aws_access_key_id"], rekognition_client}
                 ELSE UNCHANGED <<bedrock_client, rekognition_client>>
              /\ UNCHANGED USE_REAL_SERVICES]_vars

C23_Witness ==
    /\ config_resp.status = 200
    /\ config_resp.success
    /\ ~USE_REAL_SERVICES
    /\ elevenlabs_api_key # 0
    /\ tavus_api_key = 0
    /\ bedrock_client = 0
    /\ rekognition_client = 0

\* C24: once an adapter is configured (client initialized or key set), no /config
\* call and no request returns it to the unconfigured state.
C24_NeverUnconfigured ==
    [][\A a \in Adapters : StateOf(a) # 0 => StateOf(a)' # 0]_vars

====
